---- MODULE Spec2Model ----
(***************************************************************************)
(* Model of src/src/editor-mathfield/utils.ts: the bounds cache, the node  *)
(* bounds resolver, the scroll/scale adjuster, the range and selection     *)
(* bounds aggregators, the element info and href lookups and the origin    *)
(* validator.                                                              *)
(*                                                                         *)
(* Strings that the code takes apart (the argument of \htmlData, urls, ids)*)
(* are tuples of one-character strings; atom ids, branch names and origins *)
(* are only compared or concatenated and stay TLA+ strings.                *)
(* Coordinates are integer pixels.                                         *)
(***************************************************************************)
EXTENDS Integers, Sequences, FiniteSets, TLC

VARIABLES
  atoms,        \* mf.model: offset -> atom (id, parent, parentBranch, style, command, args)
  layout,       \* geometry the renderer gave the DOM element of atom a1: width and right margin
  attached,     \* DOM elements currently attached to their parent element
  field,        \* mf.field: bounding rect, scrollLeft, offsetWidth
  hasCache,     \* mf.atomBoundsCache is defined
  cache,        \* mf.atomBoundsCache: atom id -> Rect, NoRect when the Map has no entry
  windowOrigin, \* window.origin
  call,         \* the last step: operation, arguments, what it touched
  ret,          \* the value the last call returned
  firstCached,  \* history: the rectangle first stored for an id that the Map holds
  domChanged    \* history: the DOM changed since construction

vars == <<atoms, layout, attached, field, hasCache, cache, windowOrigin,
          call, ret, firstCached, domChanged>>

----------------------------------------------------------------------------
(* Bounds of the model *)

MaxWidth == 2      \* widths of the element of atom a1: 0..MaxWidth
MaxMargin == 1     \* its right margin: 0..MaxMargin
MaxRangeLen == 2   \* ranges of getRangeBoundingRect hold at most MaxRangeLen offsets
MaxSelRangeLen == 1 \* ranges of a selection hold at most MaxSelRangeLen offsets
MaxRanges == 2     \* a selection holds at most MaxRanges ranges
MaxSelected == 2   \* and at most MaxSelected offsets
MaxDepth == 3      \* atoms of the tree the ancestor walks run on

----------------------------------------------------------------------------
(* Values *)

NoRect == [none |-> TRUE]        \* null
NoElem == 0                      \* querySelector found nothing
NoParent == -1                   \* atom.parent is undefined
NoAtom == [none |-> TRUE]        \* model.at(offset) is undefined
NoOrigin == "<undefined>"        \* window.origin is undefined

Rect(t, b, l, r) == [top |-> t, bottom |-> b, left |-> l, right |-> r]
ZeroRect == Rect(0, 0, 0, 0)

Min(a, b) == IF a <= b THEN a ELSE b
Max(a, b) == IF a >= b THEN a ELSE b
CeilDiv(n, d) == -((-n) \div d)

Str(s) == [isString |-> TRUE, val |-> s]
NonStr == [isString |-> FALSE, val |-> <<>>]

StrBranch(name) == [isString |-> TRUE, name |-> name, row |-> 0, col |-> 0]
CellBranch(r, c) == [isString |-> FALSE, name |-> "", row |-> r, col |-> c]

Atom(id, parent, parentBranch, bg, command, args, mode) ==
  [id |-> id, parent |-> parent, parentBranch |-> parentBranch,
   backgroundColor |-> bg, command |-> command, args |-> args, mode |-> mode]

AtomIds == {"a0", "a1", "a2", "a3", "a4"}

\* The expression tree the bounds queries run on: a root holding a 2x2
\* array (offsets 1..3 are cells) and a superscript (offsets 4, 5); the atom
\* at offset 5 has no id.
BoundsAtoms ==
  [o \in 0..5 |->
     CASE o = 0 -> Atom("a0", NoParent, StrBranch(""), "", "x", <<>>, "math")
       [] o = 1 -> Atom("a1", 0, CellBranch(0, 0), "", "x", <<>>, "math")
       [] o = 2 -> Atom("a2", 0, CellBranch(0, 1), "", "x", <<>>, "math")
       [] o = 3 -> Atom("a3", 0, CellBranch(1, 0), "", "x", <<>>, "math")
       [] o = 4 -> Atom("a4", 0, StrBranch("superscript"), "yellow", "x", <<>>, "text")
       [] o = 5 -> Atom("", 0, StrBranch("superscript"), "", "x", <<>>, "latex")]

Offsets == DOMAIN atoms
LastOffset == Cardinality(DOMAIN atoms) - 1

\* model.at(offset)
At(o) == IF o \in DOMAIN atoms THEN atoms[o] ELSE NoAtom

----------------------------------------------------------------------------
(* The DOM under mf.field.  Elements are numbered in document order. *)

Elems == 1..8
Removable == {5}

\* dataset.atomId, "" when the element has none
ElemAtomId(e) ==
  CASE e = 1 -> "a0"
    [] e = 2 -> "a1"
    [] e = 3 -> "a0"
    [] e = 4 -> ""
    [] e = 5 -> "a2"
    [] e = 6 -> "a3"
    [] e = 7 -> "a3"
    [] e = 8 -> "a4"

IsPstrut(e) == e = 3
TagName(e) == IF e = 6 THEN "svg" ELSE "span"
ToUpperCase(s) == IF s = "svg" THEN "SVG" ELSE IF s = "span" THEN "SPAN" ELSE s

\* node.children with the detached ones, in document order
ChildList(e) ==
  CASE e = 1 -> <<2, 3, 4, 8>>
    [] e = 4 -> <<5, 6>>
    [] e = 6 -> <<7>>
    [] OTHER -> <<>>

\* node.children
Children(e) == SelectSeq(ChildList(e), LAMBDA k : attached[k])

\* node.parentElement, NoElem for the topmost element under the field
ElemParent(e) ==
  CASE e = 1 -> NoElem
    [] e \in {2, 3, 4, 8} -> 1
    [] e \in {5, 6} -> 4
    [] e = 7 -> 6

RECURSIVE InDocument(_)
InDocument(e) ==
  /\ attached[e]
  /\ (ElemParent(e) = NoElem \/ InDocument(ElemParent(e)))

\* node.getBoundingClientRect(), viewport coordinates
BoundingClientRect(e) ==
  CASE e = 1 -> Rect(20, 30, 10, 20)
    [] e = 2 -> Rect(22, 24, 12, 12 + layout.width)
    [] e = 3 -> Rect(0, 50, 10, 10)
    [] e = 4 -> Rect(20, 30, 0, 40)
    [] e = 5 -> Rect(21, 25, 15, 18)
    [] e = 6 -> Rect(26, 29, 13, 16)
    [] e = 7 -> Rect(26, 29, 5, 30)
    [] e = 8 -> Rect(18, 23, 19, 22)

\* parseInt(getComputedStyle(node).marginRight)
MarginRight(e) == IF e = 2 THEN layout.margin ELSE 0

\* mf.field.querySelector(`[data-atom-id="${id}"]`)
QuerySelector(id) ==
  LET found == {e \in Elems : InDocument(e) /\ ElemAtomId(e) = id}
  IN IF found = {} THEN NoElem
     ELSE CHOOSE e \in found : \A f \in found : e <= f

----------------------------------------------------------------------------
(* getNodeBounds *)

Union(r, s) ==
  Rect(Min(r.top, s.top), Max(r.bottom, s.bottom),
       Min(r.left, s.left), Max(r.right, s.right))

RECURSIVE getNodeBounds(_)
getNodeBounds(node) ==
  LET bounds == BoundingClientRect(node)
      marginRight == MarginRight(node)
      result == Rect(bounds.top - 1, bounds.bottom,
                     bounds.left, bounds.right - 1 + marginRight)
      kids == Children(node)
      RECURSIVE Loop(_, _)
      Loop(res, i) ==
        IF i > Len(kids) THEN res
        ELSE LET child == kids[i]
             IN IF ElemAtomId(child) # "" /\ ~IsPstrut(child)
                THEN Loop(Union(res, getNodeBounds(child)), i + 1)
                ELSE Loop(res, i + 1)
  IN IF Len(kids) = 0 \/ ToUpperCase(TagName(node)) = "SVG"
     THEN result
     ELSE Loop(result, 1)

----------------------------------------------------------------------------
(* adjustForScrolling *)

\* scaleFactor of getRangeBounds, as a fraction: floor(width)/offsetWidth,
\* 1 when the division is NaN (0/0)
ScaleFactor ==
  LET offsetWidth == field.offsetWidth
      actualWidth == field.widthHalves \div 2
  IN IF offsetWidth = 0 /\ actualWidth = 0
     THEN [num |-> 1, den |-> 1]
     ELSE [num |-> actualWidth, den |-> offsetWidth]

adjustForScrolling(rect, scaleFactor) ==
  IF rect = NoRect THEN NoRect
  ELSE LET w == rect.right - rect.left
           h == rect.bottom - rect.top
           left == CeilDiv((rect.left - field.left) * scaleFactor.den
                           + field.scrollLeft * scaleFactor.num,
                           scaleFactor.den)
           top == rect.top - field.top
       IN [left |-> left, right |-> left + w, top |-> top, bottom |-> top + h]

----------------------------------------------------------------------------
(* getAtomBounds: the result, the Map after the call, and what was touched *)

\* getAtomBounds that forgets to store what it measured
getAtomBounds_NoStore(c, atom) ==
  IF atom.id = ""
  THEN [ret |-> NoRect, cache |-> c, cacheRead |-> FALSE, domRead |-> FALSE]
  ELSE LET cached == IF hasCache THEN c[atom.id] ELSE NoRect
       IN IF cached # NoRect
          THEN [ret |-> cached, cache |-> c, cacheRead |-> TRUE, domRead |-> FALSE]
          ELSE LET node == QuerySelector(atom.id)
                   result == IF node # NoElem THEN getNodeBounds(node) ELSE NoRect
               IN [ret |-> result, cache |-> c,
                   cacheRead |-> hasCache, domRead |-> TRUE]

getAtomBounds(c, atom) ==
  IF atom.id = ""
  THEN [ret |-> NoRect, cache |-> c, cacheRead |-> FALSE, domRead |-> FALSE]
  ELSE LET cached == IF hasCache THEN c[atom.id] ELSE NoRect
       IN IF cached # NoRect
          THEN [ret |-> cached, cache |-> c, cacheRead |-> TRUE, domRead |-> FALSE]
          ELSE LET node == QuerySelector(atom.id)
                   result == IF node # NoElem THEN getNodeBounds(node) ELSE NoRect
               IN [ret |-> result,
                   cache |-> IF hasCache THEN [c EXCEPT ![atom.id] = result] ELSE c,
                   cacheRead |-> hasCache, domRead |-> TRUE]

\* history: what was first stored for the ids that c1 holds and c0 did not
FirstStored(c0, c1) ==
  IF c1 = c0 THEN firstCached
  ELSE
  [id \in AtomIds |->
     IF c1[id] = NoRect THEN NoRect
     ELSE IF c0[id] = NoRect THEN getNodeBounds(QuerySelector(id))
     ELSE firstCached[id]]

----------------------------------------------------------------------------
(* getRangeBoundingRect.  `result = bounds` makes result the very object  *)
(* that getAtomBounds stored in the Map, so the assignments to result.top  *)
(* etc. write to the Map's entry as well; alias is the id of that entry.   *)

getRangeBoundingRect(c, range) ==
  LET start == range[1]
      end == range[2]
      RECURSIVE Loop(_, _, _, _)
      Loop(cc, result, alias, i) ==
        IF i > end THEN [ret |-> IF result = NoRect THEN ZeroRect ELSE result,
                         cache |-> cc]
        ELSE LET g == getAtomBounds(cc, At(i))
                 bounds == g.ret
             IN IF bounds = NoRect THEN Loop(g.cache, result, alias, i + 1)
                ELSE IF result = NoRect
                THEN Loop(g.cache, bounds, IF hasCache THEN At(i).id ELSE "", i + 1)
                ELSE LET merged == Union(result, bounds)
                     IN Loop(IF alias # "" THEN [g.cache EXCEPT ![alias] = merged]
                             ELSE g.cache,
                             merged, alias, i + 1)
  IN Loop(c, NoRect, "", start)


----------------------------------------------------------------------------
(* branchId and getRangeBounds *)

branchId(atom) ==
  IF atom.parent = NoParent THEN "root"
  ELSE LET result == atoms[atom.parent].id
       IN IF atom.parentBranch.isString
          THEN result \o "-" \o atom.parentBranch.name
          ELSE result \o "-" \o ToString(atom.parentBranch.row)
                      \o "/" \o ToString(atom.parentBranch.row)

RECURSIVE HasAncestorIn(_, _)
HasAncestorIn(o, S) ==
  /\ atoms[o].parent # NoParent
  /\ (atoms[o].parent \in S \/ HasAncestorIn(atoms[o].parent, S))

\* model.getAtoms(range, {includeChildren: true}): the offsets of the range
\* and of the descendants of its atoms, in offset order
GetAtoms(range) ==
  LET S == {o \in Offsets : range[1] <= o /\ o <= range[2]}
      all == {o \in Offsets : o \in S \/ HasAncestorIn(o, S)}
      RECURSIVE Sorted(_)
      Sorted(T) ==
        IF T = {} THEN <<>>
        ELSE LET m == CHOOSE x \in T : \A y \in T : x <= y
             IN <<m>> \o Sorted(T \ {m})
  IN Sorted(all)

\* The Map<string, Rect> of getRangeBounds, in insertion order.  members is
\* history: the offsets of the atoms whose bounds went into the entry.
MapHas(rects, id) == \E i \in 1..Len(rects) : rects[i].key = id
MapGet(rects, id) == rects[CHOOSE i \in 1..Len(rects) : rects[i].key = id].rect
MapSet(rects, id, rect, o) ==
  IF MapHas(rects, id)
  THEN [i \in 1..Len(rects) |->
          IF rects[i].key = id
          THEN [key |-> id, rect |-> rect, members |-> rects[i].members \cup {o}]
          ELSE rects[i]]
  ELSE Append(rects, [key |-> id, rect |-> rect, members |-> {o}])
MapValues(rects) == [i \in 1..Len(rects) |-> rects[i].rect]

\* getRangeBounds that ignores excludeAtomsWithBackground
getRangeBounds_NoExclude(c, range, exclude) ==
  LET scaleFactor == ScaleFactor
      list == GetAtoms(range)
      RECURSIVE Loop(_, _, _)
      Loop(cc, rects, i) ==
        IF i > Len(list) THEN [ret |-> MapValues(rects), cache |-> cc, rects |-> rects]
        ELSE LET atom == At(list[i])
                 g == getAtomBounds(cc, atom)
                 bounds == adjustForScrolling(g.ret, scaleFactor)
             IN IF bounds = NoRect THEN Loop(g.cache, rects, i + 1)
                ELSE LET id == branchId(atom)
                     IN IF MapHas(rects, id)
                        THEN Loop(g.cache,
                                  MapSet(rects, id, Union(MapGet(rects, id), bounds), list[i]),
                                  i + 1)
                        ELSE Loop(g.cache, MapSet(rects, id, bounds, list[i]), i + 1)
  IN Loop(c, <<>>, 1)

getRangeBounds(c, range, exclude) ==
  LET scaleFactor == ScaleFactor
      list == GetAtoms(range)
      RECURSIVE Loop(_, _, _)
      Loop(cc, rects, i) ==
        IF i > Len(list) THEN [ret |-> MapValues(rects), cache |-> cc, rects |-> rects]
        ELSE LET atom == At(list[i])
             IN IF exclude /\ atom.backgroundColor # ""
                THEN Loop(cc, rects, i + 1)
                ELSE LET g == getAtomBounds(cc, atom)
                         bounds == adjustForScrolling(g.ret, scaleFactor)
                     IN IF bounds = NoRect THEN Loop(g.cache, rects, i + 1)
                        ELSE LET id == branchId(atom)
                             IN IF MapHas(rects, id)
                                THEN Loop(g.cache,
                                          MapSet(rects, id, Union(MapGet(rects, id), bounds), list[i]),
                                          i + 1)
                                ELSE Loop(g.cache, MapSet(rects, id, bounds, list[i]), i + 1)
  IN Loop(c, <<>>, 1)

\* getSelectionBounds that puts the rectangles of a range before those of
\* the ranges it has done
getSelectionBounds_Prepend(c, ranges, exclude) ==
  LET RECURSIVE Reduce(_, _, _, _)
      Reduce(cc, acc, perRange, i) ==
        IF i > Len(ranges) THEN [ret |-> acc, cache |-> cc, perRange |-> perRange]
        ELSE LET g == getRangeBounds(cc, ranges[i], exclude)
             IN Reduce(g.cache, g.ret \o acc,
                       Append(perRange, [ret |-> g.ret, rects |-> g.rects]), i + 1)
  IN Reduce(c, <<>>, <<>>, 1)

\* selection.ranges.reduce((acc, x) => acc.concat(...getRangeBounds(x)), [])
getSelectionBounds(c, ranges, exclude) ==
  LET RECURSIVE Reduce(_, _, _, _)
      Reduce(cc, acc, perRange, i) ==
        IF i > Len(ranges) THEN [ret |-> acc, cache |-> cc, perRange |-> perRange]
        ELSE LET g == getRangeBounds(cc, ranges[i], exclude)
             IN Reduce(g.cache, acc \o g.ret,
                       Append(perRange, [ret |-> g.ret, rects |-> g.rects]), i + 1)
  IN Reduce(c, <<>>, <<>>, 1)

----------------------------------------------------------------------------
(* validateOrigin.  A validator is 'none', 'same-origin', a function (the  *)
(* set of origins it returns true for) or any other value.                 *)

\* validateOrigin that rejects every origin when window.origin is unknown
validateOrigin_Strict(origin, originValidator) ==
  IF origin = "*" \/ originValidator.kind = "none" THEN TRUE
  ELSE IF originValidator.kind = "same-origin"
  THEN origin = windowOrigin
  ELSE IF originValidator.kind = "function"
  THEN origin \in originValidator.accepts
  ELSE FALSE

validateOrigin(origin, originValidator) ==
  IF origin = "*" \/ originValidator.kind = "none" THEN TRUE
  ELSE IF originValidator.kind = "same-origin"
  THEN windowOrigin \in {NoOrigin, ""} \/ origin = windowOrigin
  ELSE IF originValidator.kind = "function"
  THEN origin \in originValidator.accepts
  ELSE FALSE

----------------------------------------------------------------------------
(* The \htmlData argument: entries.split(','), entry.match(/([^=]+)=(.+$)/),*)
(* key.trim().replace(/ /g, '-')                                           *)

RECURSIVE Split(_)
Split(s) ==
  IF \A i \in 1..Len(s) : s[i] # "," THEN <<s>>
  ELSE LET p == CHOOSE i \in 1..Len(s) :
                  s[i] = "," /\ \A j \in 1..(i - 1) : s[j] # ","
       IN <<SubSeq(s, 1, p - 1)>> \o Split(SubSeq(s, p + 1, Len(s)))

\* The leftmost match: a maximal run of non-'=' characters, the '=' that ends
\* it, and at least one character after it up to the end of the entry.
NoMatch == [matched |-> FALSE, key |-> <<>>, value |-> <<>>]
Match(entry) ==
  LET n == Len(entry)
      EqAfter(i) == {p \in (i + 1)..n : entry[p] = "=" /\ \A j \in i..(p - 1) : entry[j] # "="}
      starts == {i \in 1..n : entry[i] # "=" /\ \E p \in EqAfter(i) : p < n}
  IN IF starts = {} THEN NoMatch
     ELSE LET i == CHOOSE x \in starts : \A y \in starts : x <= y
              p == CHOOSE x \in EqAfter(i) : TRUE
          IN [matched |-> TRUE, key |-> SubSeq(entry, i, p - 1),
              value |-> SubSeq(entry, p + 1, n)]

Trim(s) ==
  LET keep == {i \in 1..Len(s) : s[i] # " "}
  IN IF keep = {} THEN <<>>
     ELSE LET lo == CHOOSE x \in keep : \A y \in keep : x <= y
              hi == CHOOSE x \in keep : \A y \in keep : x >= y
          IN SubSeq(s, lo, hi)

ReplaceSpaces(s) == [i \in 1..Len(s) |-> IF s[i] = " " THEN "-" ELSE s[i]]

\* result.data: the set of its key/value pairs, {} while result.data is
\* undefined; result.data[key] = value
NoData == {}
Undefined == [defined |-> FALSE, val |-> <<>>]
Defined(v) == [defined |-> TRUE, val |-> v]
Assign(data, key, value) ==
  {e \in data : e.key # key} \cup {[key |-> key, value |-> value]}

ParseEntries(data, entries) ==
  LET RECURSIVE Loop(_, _)
      Loop(d, i) ==
        IF i > Len(entries) THEN d
        ELSE LET matched == Match(entries[i])
             IN IF matched.matched
                THEN LET key == ReplaceSpaces(Trim(matched.key))
                     IN IF key # <<>>
                        THEN Loop(Assign(d, key, Defined(matched.value)), i + 1)
                        ELSE Loop(d, i + 1)
                ELSE LET key == ReplaceSpaces(Trim(entries[i]))
                     IN IF key # <<>>
                        THEN Loop(Assign(d, key, Undefined), i + 1)
                        ELSE Loop(d, i + 1)
  IN Loop(data, 1)

----------------------------------------------------------------------------
(* getElementInfo and getHref *)

HasStringArg(a) == Len(a.args) >= 1 /\ a.args[1].isString

\* atom.treeDepth
RECURSIVE TreeDepth(_)
TreeDepth(a) == IF a.parent = NoParent THEN 1 ELSE 1 + TreeDepth(atoms[a.parent])

NoId == [defined |-> FALSE, val |-> <<>>]
NoInfo == [none |-> TRUE]

\* the loop reading only the first \htmlData command it meets
RECURSIVE WalkInfo_Nearest(_, _, _)
WalkInfo_Nearest(a, data, id) ==
  LET data1 == IF a.command = "\\htmlData" /\ HasStringArg(a) /\ data = NoData
               THEN ParseEntries(data, Split(a.args[1].val))
               ELSE data
      id1 == IF /\ a.command \in {"\\htmlId", "\\cssId"}
                /\ (~id.defined \/ id.val = <<>>)
                /\ HasStringArg(a)
             THEN Defined(a.args[1].val)
             ELSE id
  IN IF a.parent = NoParent THEN [data |-> data1, id |-> id1]
     ELSE WalkInfo_Nearest(atoms[a.parent], data1, id1)

\* the while (a) loop: data and id collected from the atom and its ancestors
RECURSIVE WalkInfo(_, _, _)
WalkInfo(a, data, id) ==
  LET data1 == IF a.command = "\\htmlData" /\ HasStringArg(a)
               THEN ParseEntries(data, Split(a.args[1].val))
               ELSE data
      id1 == IF /\ a.command \in {"\\htmlId", "\\cssId"}
                /\ (~id.defined \/ id.val = <<>>)
                /\ HasStringArg(a)
             THEN Defined(a.args[1].val)
             ELSE id
  IN IF a.parent = NoParent THEN [data |-> data1, id |-> id1]
     ELSE WalkInfo(atoms[a.parent], data1, id1)

getElementInfo(c, offset) ==
  LET atom == At(offset)
  IN IF atom = NoAtom THEN [ret |-> NoInfo, cache |-> c]
     ELSE LET g == getAtomBounds(c, atom)
              bounds == g.ret
              w == WalkInfo(atom, NoData, NoId)
          IN [ret |-> [bounds |-> IF bounds # NoRect
                                  THEN [x |-> bounds.left, y |-> bounds.top,
                                        width |-> bounds.right - bounds.left,
                                        height |-> bounds.bottom - bounds.top]
                                  ELSE NoRect,
                       depth |-> TreeDepth(atom) - 2,
                       style |-> [backgroundColor |-> atom.backgroundColor],
                       data |-> w.data,
                       id |-> w.id,
                       hasLatex |-> atom.mode \in {"math", "text"}],
              cache |-> g.cache]

\* the walk stopping at the first \href atom whatever its argument
RECURSIVE WalkHref_StopAtFirst(_)
WalkHref_StopAtFirst(a) ==
  IF a.command = "\\href"
  THEN IF HasStringArg(a) THEN a.args[1].val ELSE <<>>
  ELSE IF a.parent = NoParent THEN <<>>
  ELSE WalkHref_StopAtFirst(atoms[a.parent])

RECURSIVE WalkHref(_)
WalkHref(a) ==
  IF a.command = "\\href" /\ HasStringArg(a) THEN a.args[1].val
  ELSE IF a.parent = NoParent THEN <<>>
  ELSE WalkHref(atoms[a.parent])

getHref(offset) ==
  LET a == At(offset)
  IN IF a = NoAtom THEN <<>> ELSE WalkHref(a)

----------------------------------------------------------------------------
(* Inputs *)

\* [start, end] with at most MaxRangeLen offsets; start = end + 1 is empty
Ranges ==
  {r \in (0..LastOffset) \X (0..LastOffset) :
     r[2] - r[1] + 1 \in 0..MaxRangeLen}

\* The ranges of a selection: one to MaxSelRangeLen offsets; the range of the
\* root atom alone stands for every range that holds it, since its
\* descendants are all the atoms
SelRanges ==
  {r \in (0..LastOffset) \X (0..LastOffset) :
     /\ r[2] - r[1] + 1 \in 1..MaxSelRangeLen
     /\ (r[1] = 0 => r[2] = 0)}

\* model.selection.ranges: one to MaxRanges disjoint ranges, in offset order,
\* that hold at most MaxSelected offsets together
Selections ==
  UNION {{s \in [1..n -> SelRanges] :
            /\ \A i \in 1..(n - 1) : s[i][2] < s[i + 1][1]
            /\ Cardinality({o \in Offsets :
                              \E i \in 1..n : s[i][1] <= o /\ o <= s[i][2]})
                 <= MaxSelected} : n \in 1..MaxRanges}

Scrolled == [left |-> 10, top |-> 20, scrollLeft |-> 3, offsetWidth |-> 4, widthHalves |-> 5]
Collapsed == [left |-> 10, top |-> 20, scrollLeft |-> 3, offsetWidth |-> 0, widthHalves |-> 0]
FieldConfigs == {Scrolled, Collapsed}

\* Atoms of the trees the ancestor walks run on: command and arguments
AtomKinds ==
  { [command |-> "\\href", args |-> <<Str(<<"u">>)>>],
    [command |-> "\\href", args |-> <<NonStr>>],
    [command |-> "\\htmlData", args |-> <<Str(<<"a", "=", "1">>)>>],
    [command |-> "\\htmlData",
     args |-> <<Str(<<"a", "=", "2", ",", " ", "b", " ", "c", " ", ",", "=", "3">>)>>],
    [command |-> "\\htmlId", args |-> <<Str(<<"i">>)>>] }

IdOf(o) == CASE o = 0 -> "a0" [] o = 1 -> "a1" [] o = 2 -> "a2"
             [] o = 3 -> "a3" [] OTHER -> "a4"

\* Every tree of MaxDepth atoms in which the parent of an atom has a lower
\* offset
InfoTrees ==
  {[o \in 0..(MaxDepth - 1) |->
      Atom(IdOf(o), p[o], StrBranch("body"), "", k[o].command, k[o].args, "math")] :
     p \in {q \in [0..(MaxDepth - 1) -> -1..(MaxDepth - 2)] :
              \A o \in 0..(MaxDepth - 1) :
                 q[o] < o /\ (q[o] = -1 <=> q[o] = NoParent)},
     k \in [0..(MaxDepth - 1) -> AtomKinds]}

Origins == {"*", "https://x", "https://y", "null", ""}
WindowOrigins == {NoOrigin, "", "https://x", "null"}
Validators ==
  {[kind |-> "none", accepts |-> {}], [kind |-> "same-origin", accepts |-> {}],
   [kind |-> "other", accepts |-> {}]}
  \cup {[kind |-> "function", accepts |-> S] : S \in SUBSET {"https://x", "https://y", "*"}}

----------------------------------------------------------------------------
(* Actions *)

GetAtomBounds ==
  \E o \in Offsets :
    \E g \in {getAtomBounds(cache, At(o))} :
       /\ cache' = g.cache
       /\ ret' = g.ret
       /\ call' = [op |-> "getAtomBounds", offset |-> o, id |-> At(o).id,
                   cacheRead |-> g.cacheRead, domRead |-> g.domRead]
       /\ firstCached' = FirstStored(cache, g.cache)
       /\ UNCHANGED <<atoms, layout, attached, field, hasCache, windowOrigin, domChanged>>

GetRangeBoundingRect ==
  \E range \in Ranges :
    \E g \in {getRangeBoundingRect(cache, range)} :
       /\ cache' = g.cache
       /\ ret' = g.ret
       /\ call' = [op |-> "getRangeBoundingRect", range |-> range]
       /\ firstCached' = FirstStored(cache, g.cache)
       /\ UNCHANGED <<atoms, layout, attached, field, hasCache, windowOrigin, domChanged>>

GetSelectionBounds ==
  \E ranges \in Selections, exclude \in BOOLEAN :
    \E g \in {getSelectionBounds(cache, ranges, exclude)} :
       /\ cache' = g.cache
       /\ ret' = g.ret
       /\ call' = [op |-> "getSelectionBounds", ranges |-> ranges,
                   exclude |-> exclude, perRange |-> g.perRange]
       /\ firstCached' = FirstStored(cache, g.cache)
       /\ UNCHANGED <<atoms, layout, attached, field, hasCache, windowOrigin, domChanged>>

GetElementInfo ==
  \E offset \in 0..(LastOffset + 1) :
    \E g \in {getElementInfo(cache, offset)} :
       /\ cache' = g.cache
       /\ ret' = g.ret
       /\ call' = [op |-> "getElementInfo", offset |-> offset]
       /\ firstCached' = FirstStored(cache, g.cache)
       /\ UNCHANGED <<atoms, layout, attached, field, hasCache, windowOrigin, domChanged>>

GetHref ==
  \E offset \in 0..(LastOffset + 1) :
    /\ ret' = getHref(offset)
    /\ call' = [op |-> "getHref", offset |-> offset]
    /\ UNCHANGED <<atoms, layout, attached, field, hasCache, cache, windowOrigin,
                   firstCached, domChanged>>

ValidateOrigin ==
  \E origin \in Origins, originValidator \in Validators :
    /\ ret' = validateOrigin(origin, originValidator)
    /\ call' = [op |-> "validateOrigin", origin |-> origin,
                originValidator |-> originValidator]
    /\ UNCHANGED <<atoms, layout, attached, field, hasCache, cache, windowOrigin,
                   firstCached, domChanged>>

\* The renderer attaches or detaches the element of an atom
DomMutate ==
  \E e \in Removable :
    /\ attached' = [attached EXCEPT ![e] = ~attached[e]]
    /\ domChanged' = TRUE
    /\ call' = [op |-> "render", element |-> e]
    /\ ret' = NoRect
    /\ UNCHANGED <<atoms, layout, field, hasCache, cache, windowOrigin, firstCached>>

----------------------------------------------------------------------------
(* Specifications *)

InitCommon ==
  /\ cache = [id \in AtomIds |-> NoRect]
  /\ call = [op |-> "none"]
  /\ ret = NoRect
  /\ firstCached = [id \in AtomIds |-> NoRect]
  /\ domChanged = FALSE

\* The bounds cache under atom, range and element queries
Init ==
  /\ InitCommon
  /\ atoms = BoundsAtoms
  /\ layout \in [width : 0..MaxWidth, margin : 0..MaxMargin]
  /\ attached \in {f \in [Elems -> BOOLEAN] : \A e \in Elems \ Removable : f[e]}
  /\ field = Scrolled
  /\ hasCache \in BOOLEAN
  /\ windowOrigin = "https://x"

Next ==
  \/ GetAtomBounds
  \/ GetRangeBoundingRect
  \/ GetElementInfo
  \/ DomMutate

Spec == Init /\ [][Next]_vars

\* Selection bounds
InitSel ==
  /\ InitCommon
  /\ atoms = BoundsAtoms
  /\ layout = [width |-> 1, margin |-> 0]
  /\ attached = [e \in Elems |-> TRUE]
  /\ field \in FieldConfigs
  /\ hasCache \in BOOLEAN
  /\ windowOrigin = "https://x"

NextSel ==
  \/ GetSelectionBounds
  \/ DomMutate

SpecSel == InitSel /\ [][NextSel]_vars

\* The ancestor walks
InitInfo ==
  /\ InitCommon
  /\ atoms \in InfoTrees
  /\ layout = [width |-> 1, margin |-> 0]
  /\ attached = [e \in Elems |-> TRUE]
  /\ field = Scrolled
  /\ hasCache = FALSE
  /\ windowOrigin = "https://x"

NextInfo ==
  \/ GetElementInfo
  \/ GetHref

SpecInfo == InitInfo /\ [][NextInfo]_vars

\* The origin validator
InitOrigin ==
  /\ InitCommon
  /\ atoms = BoundsAtoms
  /\ layout = [width |-> 1, margin |-> 0]
  /\ attached = [e \in Elems |-> TRUE]
  /\ field = Scrolled
  /\ hasCache = TRUE
  /\ windowOrigin \in WindowOrigins

NextOrigin == ValidateOrigin

SpecOrigin == InitOrigin /\ [][NextOrigin]_vars

----------------------------------------------------------------------------
(* Properties *)

SetMin(S) == CHOOSE x \in S : \A y \in S : x <= y
SetMax(S) == CHOOSE x \in S : \A y \in S : x >= y
WellFormed(r) == r.top <= r.bottom /\ r.left <= r.right

\* The rectangle spanned by a non-empty set of rectangles
Span(R) ==
  Rect(SetMin({r.top : r \in R}), SetMax({r.bottom : r \in R}),
       SetMin({r.left : r \in R}), SetMax({r.right : r \in R}))

\* C1: once the cache holds a rectangle for an atom id, every later
\* getAtomBounds call for that atom returns the rectangle first cached
\* (no lookup for a cached id ever fails: the DOM is not asked on a hit).
C1_CachedBoundsStable ==
  (call.op = "getAtomBounds" /\ hasCache /\ ret # NoRect)
    => ret = firstCached[call.id]

\* C2: getAtomBounds returns null and touches neither cache nor DOM when the
\* atom has no id; otherwise it asks the DOM only when the cache has no entry
\* for the id; after the call the cache has no entry for the id if null was
\* returned and maps the id to the returned rectangle otherwise; the entries
\* of all other ids are unchanged.
C2_GetAtomBoundsContract ==
  [][call'.op = "getAtomBounds" =>
       LET id == call'.id
       IN /\ id = "" =>
               /\ ret' = NoRect
               /\ ~call'.cacheRead /\ ~call'.domRead
               /\ cache' = cache /\ attached' = attached
          /\ id # "" =>
               /\ call'.domRead => (~hasCache \/ cache[id] = NoRect)
               /\ (hasCache /\ cache[id] # NoRect) => ret' = cache[id]
               /\ ret' = NoRect => cache'[id] = NoRect
               /\ (ret' # NoRect /\ hasCache) => cache'[id] = ret'
               /\ \A other \in AtomIds \ {id} : cache'[other] = cache[other]
               /\ attached' = attached]_vars

C2_Witness ==
  /\ call.op = "getAtomBounds" /\ hasCache
  /\ call.domRead /\ ret # NoRect /\ cache[call.id] = ret
  /\ \E other \in AtomIds \ {call.id} : cache[other] # NoRect

\* C3: while the DOM does not change, getRangeBoundingRect returns the
\* rectangle spanned by the node bounds of the atoms of start..end that have
\* a rendered element, and the zero rectangle when there is none.
RenderedBounds(range) ==
  {getNodeBounds(QuerySelector(atoms[o].id)) :
     o \in {p \in Offsets : /\ range[1] <= p /\ p <= range[2]
                            /\ atoms[p].id # ""
                            /\ QuerySelector(atoms[p].id) # NoElem}}

C3_RangeBoundingRectIsUnion ==
  (call.op = "getRangeBoundingRect" /\ ~domChanged)
    => ret = IF RenderedBounds(call.range) = {} THEN ZeroRect
             ELSE Span(RenderedBounds(call.range))

\* The bounds of an atom as getAtomBounds resolves them in the current state
Resolved(o) == getAtomBounds(cache, atoms[o]).ret

\* The atoms of a range that getRangeBounds does not skip and whose bounds
\* resolve, as indices into the enumeration
Counted(range, exclude) ==
  LET list == GetAtoms(range)
  IN {i \in 1..Len(list) :
        /\ ~(exclude /\ atoms[list[i]].backgroundColor # "")
        /\ Resolved(list[i]) # NoRect}

KeysOf(range, exclude) ==
  {branchId(atoms[GetAtoms(range)[i]]) : i \in Counted(range, exclude)}

FirstSeen(range, exclude, key) ==
  SetMin({i \in Counted(range, exclude) : branchId(atoms[GetAtoms(range)[i]]) = key})

\* One rectangle per branch key, in the order the keys are first met, each
\* spanning the scroll-adjusted bounds of the atoms of its key
ExpectedRangeBounds(range, exclude) ==
  LET list == GetAtoms(range)
      keys == KeysOf(range, exclude)
      KeyAt(j) == CHOOSE k \in keys :
                    Cardinality({l \in keys : FirstSeen(range, exclude, l)
                                                < FirstSeen(range, exclude, k)}) = j - 1
  IN [j \in 1..Cardinality(keys) |->
        Span({adjustForScrolling(Resolved(list[i]), ScaleFactor) :
                i \in {c \in Counted(range, exclude) :
                         branchId(atoms[list[c]]) = KeyAt(j)}})]

\* C4: getRangeBounds returns one rectangle per branch key of the atoms it
\* counts, in first-met order, each the union of the scroll-adjusted bounds
\* of the atoms with that key.
C4_RangeBoundsPerBranchKey ==
  call.op = "getSelectionBounds" =>
    \A k \in 1..Len(call.ranges) :
      call.perRange[k].ret = ExpectedRangeBounds(call.ranges[k], call.exclude)

\* a key with two atoms behind it, after a key met earlier, and an atom
\* skipped for its background
C4_Witness ==
  /\ call.op = "getSelectionBounds" /\ call.exclude
  /\ \E k \in 1..Len(call.ranges) :
       /\ Len(call.perRange[k].ret) >= 3
       /\ \E j \in 2..Len(call.perRange[k].rects) :
            Cardinality(call.perRange[k].rects[j].members) >= 2
       /\ \E o \in 1..Len(GetAtoms(call.ranges[k])) :
            /\ atoms[GetAtoms(call.ranges[k])[o]].backgroundColor # ""
            /\ Resolved(GetAtoms(call.ranges[k])[o]) # NoRect

\* C5: getSelectionBounds returns the lists of its ranges one after the
\* other, in range order, and merges nothing across ranges.
RECURSIVE ExpectedConcat(_, _, _)
ExpectedConcat(ranges, exclude, k) ==
  IF k > Len(ranges) THEN <<>>
  ELSE ExpectedRangeBounds(ranges[k], exclude) \o ExpectedConcat(ranges, exclude, k + 1)

C5_SelectionBoundsConcatenate ==
  call.op = "getSelectionBounds" =>
    ret = ExpectedConcat(call.ranges, call.exclude, 1)

\* two ranges that both hold atoms of one branch key: two rectangles
C5_Witness ==
  /\ call.op = "getSelectionBounds"
  /\ Len(call.ranges) = 2
  /\ KeysOf(call.ranges[1], call.exclude) = KeysOf(call.ranges[2], call.exclude)
  /\ Cardinality(KeysOf(call.ranges[1], call.exclude)) = 1
  /\ Len(ret) = 2
  /\ ret[1] # ret[2]

\* C6: validateOrigin is true exactly when the origin is the wildcard or the
\* validator is 'none'; else, for 'same-origin', when the own origin is not
\* determinable or equals the origin; else, for a predicate, when the
\* predicate holds of the origin.
C6_ValidateOriginCases ==
  call.op = "validateOrigin" =>
    LET origin == call.origin
        kind == call.originValidator.kind
        own == windowOrigin
        determinable == own # NoOrigin /\ own # ""
    IN /\ ret <=> \/ origin = "*"
                  \/ kind = "none"
                  \/ kind = "same-origin" /\ (~determinable \/ origin = own)
                  \/ kind = "function" /\ origin \in call.originValidator.accepts
       /\ (kind = "same-origin" /\ determinable /\ origin # "*")
            => (ret <=> origin = own)

C6_Witness ==
  /\ call.op = "validateOrigin"
  /\ call.originValidator.kind = "same-origin"
  /\ windowOrigin = "https://x" /\ call.origin = "https://y"
  /\ ret = FALSE

\* The atom at an offset and its ancestors, nearest first
RECURSIVE ChainFrom(_)
ChainFrom(o) ==
  IF atoms[o].parent = NoParent THEN <<o>>
  ELSE <<o>> \o ChainFrom(atoms[o].parent)

HtmlDataOf(o) == ParseEntries(NoData, Split(atoms[o].args[1].val))
IsHtmlData(o) == atoms[o].command = "\\htmlData" /\ HasStringArg(atoms[o])

\* C7: the data getElementInfo reports is exactly what the nearest \htmlData
\* command on the ancestor chain holds.
C7_NearestHtmlDataOnly ==
  (call.op = "getElementInfo" /\ ret # NoInfo) =>
    LET chain == ChainFrom(call.offset)
        cmds == {i \in 1..Len(chain) : IsHtmlData(chain[i])}
    IN ret.data = IF cmds = {} THEN NoData ELSE HtmlDataOf(chain[SetMin(cmds)])

\* C7, amended: the data getElementInfo reports is the merge of what every
\* \htmlData command on the ancestor chain holds; for a key that several
\* commands give, the value of the farthest one is reported.
C7_MergedHtmlData ==
  (call.op = "getElementInfo" /\ ret # NoInfo) =>
    LET chain == ChainFrom(call.offset)
        cmds == {i \in 1..Len(chain) : IsHtmlData(chain[i])}
        Keys(i) == {e.key : e \in HtmlDataOf(chain[i])}
    IN ret.data =
         UNION {{e \in HtmlDataOf(chain[i]) :
                   \A j \in cmds : j > i => e.key \notin Keys(j)} : i \in cmds}

\* two commands on the chain that share a key and differ in another
C7_Witness ==
  /\ call.op = "getElementInfo" /\ ret # NoInfo
  /\ LET chain == ChainFrom(call.offset)
         cmds == {i \in 1..Len(chain) : IsHtmlData(chain[i])}
     IN \E i \in cmds, j \in cmds :
          /\ i < j
          /\ \E e \in HtmlDataOf(chain[i]), f \in HtmlDataOf(chain[j]) :
               e.key = f.key /\ e.value # f.value /\ f \in ret.data
          /\ \E f \in HtmlDataOf(chain[j]) :
               f.key \notin {e.key : e \in HtmlDataOf(chain[i])} /\ f \in ret.data

\* C8: getHref returns the string argument of the nearest atom of the chain
\* whose command is \href and whose first argument is a string, and "" when
\* there is no such atom or no atom at the offset.
C8_HrefOfNearestLink ==
  call.op = "getHref" =>
    IF call.offset \notin Offsets THEN ret = <<>>
    ELSE LET chain == ChainFrom(call.offset)
             links == {i \in 1..Len(chain) :
                         /\ atoms[chain[i]].command = "\\href"
                         /\ Len(atoms[chain[i]].args) >= 1
                         /\ atoms[chain[i]].args[1].isString}
         IN ret = IF links = {} THEN <<>>
                  ELSE atoms[chain[SetMin(links)]].args[1].val

\* a \href without a string argument is passed over for a farther one
C8_Witness ==
  /\ call.op = "getHref" /\ call.offset \in Offsets
  /\ atoms[call.offset].command = "\\href"
  /\ ~HasStringArg(atoms[call.offset])
  /\ Len(ChainFrom(call.offset)) = MaxDepth
  /\ atoms[ChainFrom(call.offset)[2]].command # "\\href"
  /\ ret = <<"u">>

\* C9: every rectangle returned or cached has top <= bottom and
\* left <= right (all client rectangles of the DOM are well-formed and the
\* right margins are non-negative integers).
C9_RectsWellFormed ==
  /\ \A id \in AtomIds : cache[id] # NoRect => WellFormed(cache[id])
  /\ (call.op \in {"getAtomBounds", "getRangeBoundingRect"} /\ ret # NoRect)
       => WellFormed(ret)
  /\ call.op = "getSelectionBounds" => \A i \in 1..Len(ret) : WellFormed(ret[i])

\* C10: two atoms go into the same rectangle of getRangeBounds only if they
\* have the same parent and the same branch of it (row and column for a
\* cell), or both have no parent.
SameBranch(a, b) ==
  \/ atoms[a].parent = NoParent /\ atoms[b].parent = NoParent
  \/ /\ atoms[a].parent # NoParent
     /\ atoms[a].parent = atoms[b].parent
     /\ atoms[a].parentBranch = atoms[b].parentBranch

C10_MergedOnlyWithinBranch ==
  call.op = "getSelectionBounds" =>
    \A k \in 1..Len(call.ranges) :
      \A j \in 1..Len(call.perRange[k].rects) :
        \A a \in call.perRange[k].rects[j].members,
           b \in call.perRange[k].rects[j].members : SameBranch(a, b)

====
